---- MODULE Spec2Model ----
(***************************************************************************)
(* The image ingestion pipeline of apertal/image-resize.                   *)
(*                                                                         *)
(* The repository holds two revisions of the HTTP handler processImage     *)
(* (src/index.js, keyed by SHA-256, and src/unnamed/part_001, keyed by     *)
(* gcs_file_path) and two revisions of the stored procedure                *)
(* update_image_processing_results (src/unnamed/part_000 with three        *)
(* parameters, src/applied-sb-migrations/update_function.sql with five).   *)
(* Both handlers are modelled; the variable impl says which one serves the *)
(* request.  One action is the code between two awaits, together with the  *)
(* catch and finally blocks it runs into.                                  *)
(***************************************************************************)
EXTENDS Integers, Sequences, FiniteSets, TLC

\* ------------------------------------------------------------- bounds
\* Largest number of comma-separated entries of RESIZE_DIMENSIONS.
MaxWidths == 3
\* Largest value of the datastore clock now() in the stored-procedure runs.
MaxClock == 3

\* ------------------------------------------------------ configuration
\* The entries RESIZE_DIMENSIONS is built from ('' is what split(',')
\* yields for an unset variable).
Tokens == {"", "200", "400", "1200"}

\* Number(s) of JavaScript on those entries: Number('') is 0.
Number(tok) ==
    CASE tok = "200" -> 200
      [] tok = "400" -> 400
      [] tok = "1200" -> 1200
      [] OTHER -> 0

\* split(','): one entry at least, MaxWidths at most.
Envs == UNION {[1..n -> Tokens] : n \in 1..MaxWidths}

\* src/index.js:28  split(',').map(Number)
RESIZE_WIDTHS_index(env) == [i \in 1..Len(env) |-> Number(env[i])]

\* src/unnamed/part_001:48  split(',').map(Number).filter(w => w > 0)
RESIZE_WIDTHS_part001(env) ==
    SelectSeq([i \in 1..Len(env) |-> Number(env[i])], LAMBDA w : w > 0)

\* Pixel widths of the uploaded image (the handlers never measure it).
SourceWidths == {400, 1000}

\* The uploaded object: path.parse(name) gives dir, name and ext.
ObjectPath == [dir |-> "photos", name |-> "cat", ext |-> ".jpg"]

\* src/index.js:220-221  `${dir ? `${dir}/` : ''}${name}_w${width}.webp`
newFileName_index(p, width) ==
    (IF p.dir # "" THEN p.dir \o "/" ELSE "") \o p.name \o "_w"
        \o ToString(width) \o ".webp"

\* src/unnamed/part_001:147-148  path.join(dir, `w${width}`, `${name}.webp`)
newFileName_part001(p, width) ==
    (IF p.dir # "" THEN p.dir \o "/" ELSE "") \o "w" \o ToString(width)
        \o "/" \o p.name \o ".webp"

\* sharp().resize(width) rejects a width that is no positive integer.
ValidWidth(width) == width > 0

\* ------------------------------------------------------ classification
Likelihood ==
    {"UNKNOWN", "VERY_UNLIKELY", "UNLIKELY", "POSSIBLE", "LIKELY", "VERY_LIKELY"}

Annotation(a, v, r) == [adult |-> a, violence |-> v, racy |-> r]

\* The SafeSearch answers the pipeline runs are checked with.
Annotations ==
    { Annotation("VERY_UNLIKELY", "VERY_UNLIKELY", "VERY_UNLIKELY"),
      Annotation("POSSIBLE", "UNLIKELY", "POSSIBLE"),
      Annotation("VERY_LIKELY", "UNLIKELY", "UNKNOWN"),
      Annotation("UNLIKELY", "LIKELY", "POSSIBLE"),
      Annotation("POSSIBLE", "VERY_UNLIKELY", "LIKELY") }

NoAnnotation == Annotation("", "", "")

isUnsafe_OnlyVeryLikely(detections) ==
    "VERY_LIKELY" \in {detections.adult, detections.violence, detections.racy}

isUnsafe_WithMedical(detections) ==
    \E likelihood \in {"VERY_LIKELY", "LIKELY"} :
        likelihood \in {detections.adult, detections.violence, detections.racy,
                        detections.medical}

\* src/index.js:122-124 and src/unnamed/part_001:95-97
isUnsafe(detections) ==
    \E likelihood \in {"VERY_LIKELY", "LIKELY"} :
        likelihood \in {detections.adult, detections.violence, detections.racy}

\* --------------------------------------------------------------- exif
\* What exiftool.read returns: the tags of the file.
RawExif == {"Make", "ThumbnailImage", "PreviewImage"}

\* src/unnamed/part_001:88-90
sanitizedExifData(exif) == exif \ {"ThumbnailImage", "PreviewImage"}

\* ------------------------------------------------------------ catalog
Ids == {1, 2}
None == <<>>
Some(x) == <<x>>

\* A row of public.images as the upload step leaves it.
FreshRow ==
    [status |-> "pending", exif |-> None, processed_sizes |-> None,
     width |-> None, height |-> None, processed_gcs_path |-> None,
     updated_at |-> 0]

VARIABLES
    impl,               \* "index" (src/index.js) or "part001" (src/unnamed/part_001)
    body,               \* req.body: which of bucket and name are present
    RESIZE_WIDTHS,      \* the configured widths, parsed at start-up
    sourceWidth,        \* pixel width of the uploaded image
    pc,                 \* where processImage is
    status,             \* HTTP status sent, 0 while none is
    srcOrig,            \* the original exists in the source bucket
    dstOrig,            \* the original exists in the destination bucket
    tempFile,           \* the local working file exists
    images,             \* public.images: id -> row, the rows matching this upload
    imageRecord,        \* part_001: id of the record found, 0 before
    exifData,           \* the extracted metadata, None before
    detections,         \* the SafeSearch annotation, NoAnnotation before
    task,               \* one resizeAndSave promise per entry of RESIZE_WIDTHS
    destBucket,         \* names of the renditions in the destination bucket
    createdImageNames,  \* index.js: names resolved by the successful promises
    cleanupI,           \* index.js: position of the cleanup loop
    processedSizes,     \* part_001: width key -> file name
    now,                \* the datastore clock
    lastCall,           \* stored-procedure runs: the previous call, None before
    afterLast,          \* stored-procedure runs: the table before the repeated call
    log,                \* what the invocation has done so far
    verdict,            \* the value of isUnsafe, None before it is computed
    run,                \* 1 for the first delivery of the trigger, 2 for its retry
    invocations,        \* concurrent invocations: i -> [name, pc, status, read]
    tmpdir              \* os.tmpdir(): the files, [path, bytes, by]

vars ==
    <<impl, body, RESIZE_WIDTHS, sourceWidth, pc, status, srcOrig, dstOrig,
      tempFile, images, imageRecord, exifData, detections, task, destBucket,
      createdImageNames, cleanupI, processedSizes, now, lastCall, afterLast, log,
      verdict, run, invocations, tmpdir>>

config == <<impl, body, RESIZE_WIDTHS, sourceWidth>>
sqlVars == <<lastCall, afterLast>>
aux == <<verdict, run, invocations, tmpdir>>

Tasks == 1..Len(RESIZE_WIDTHS)

InitIdle ==
    /\ pc = "start"
    /\ status = 0
    /\ srcOrig = TRUE
    /\ dstOrig = FALSE
    /\ tempFile = FALSE
    /\ imageRecord = 0
    /\ exifData = None
    /\ task = [i \in 1..Len(RESIZE_WIDTHS) |-> "idle"]
    /\ destBucket = {}
    /\ createdImageNames = <<>>
    /\ cleanupI = 0
    /\ processedSizes = <<>>
    /\ now = 1
    /\ lastCall = None
    /\ afterLast = None
    /\ log = {}
    /\ verdict = None
    /\ run = 1

InitCommon ==
    /\ InitIdle
    /\ invocations = <<>>
    /\ tmpdir = {}
    /\ detections = NoAnnotation

Init ==
    /\ impl \in {"index", "part001"}
    /\ body \in [bucket : BOOLEAN, name : BOOLEAN]
    /\ \E env \in Envs :
          RESIZE_WIDTHS = IF impl = "index" THEN RESIZE_WIDTHS_index(env)
                          ELSE RESIZE_WIDTHS_part001(env)
    /\ sourceWidth \in SourceWidths
    /\ \E ids \in SUBSET Ids : images = [id \in ids |-> FreshRow]
    /\ InitCommon

\* ------------------------------------------------------- shared pieces
Finally_KeepFile(exists) == exists

\* src/index.js:191-200 and src/unnamed/part_001:132-135: unlink the
\* working file when it exists.
Finally(exists) == FALSE

\* Send a response and leave through the finally block.
Respond(code, file) ==
    /\ status' = code
    /\ tempFile' = Finally(file)
    /\ pc' = "done"

\* src/index.js:188-190 and src/unnamed/part_001:129-131: the catch block
\* answers 500 whatever was thrown.
errorStatus(e) == 500

\* An await threw e: the catch block, then the finally block.
Fail(e, file) ==
    /\ Respond(errorStatus(e), file)
    /\ log' = log \cup {e}

Note(events) == log' = log \cup events

\* The names a list of settled promises resolved to, in the order of the list.
RECURSIVE successfulResults(_, _, _)
successfulResults(widths, t, i) ==
    IF i > Len(widths) THEN <<>>
    ELSE (IF t[i] = "ok" THEN <<newFileName_index(ObjectPath, widths[i])>> ELSE <<>>)
             \o successfulResults(widths, t, i + 1)

\* src/index.js:151-153 and src/unnamed/part_001:106-108: one resizeAndSave
\* per entry of RESIZE_WIDTHS, whatever the width W of the source.
resizeTargets(widths, W) == widths

\* The promises as RESIZE_WIDTHS.map(resizeAndSave) leaves them: the executor
\* runs at once and throws on a width sharp refuses. An entry that is no
\* target stays idle.
StartTasks ==
    LET targets == resizeTargets(RESIZE_WIDTHS, sourceWidth) IN
    [i \in Tasks |->
        IF \E j \in 1..Len(targets) : targets[j] = RESIZE_WIDTHS[i]
        THEN (IF ValidWidth(RESIZE_WIDTHS[i]) THEN "running" ELSE "err")
        ELSE "idle"]

\* File.move to another bucket copies, then deletes the source.
MoveOutcomes == {"moved", "failed", "copied"}

MoveOriginal_CopyOnly(outcome) ==
    /\ srcOrig' = TRUE
    /\ dstOrig' = (outcome # "failed")

MoveOriginal(outcome) ==
    /\ srcOrig' = (outcome # "moved")
    /\ dstOrig' = (outcome # "failed")

\* ------------------------------------------- processImage, src/index.js
\* src/index.js:40-67  validation, then the download is started
Index_Start ==
    /\ impl = "index" /\ pc = "start"
    /\ IF ~body.bucket \/ ~body.name
       THEN /\ status' = 400
            /\ pc' = "done"
            /\ Note({"badRequest"})
       ELSE /\ pc' = "download"
            /\ UNCHANGED <<status, log>>
    /\ UNCHANGED <<config, aux, srcOrig, dstOrig, tempFile, images, imageRecord,
                   exifData, detections, task, destBucket, createdImageNames,
                   cleanupI, processedSizes, now, sqlVars>>

\* src/index.js:67-80  download, SHA-256 of the file, exiftool.read started
Index_Download ==
    /\ impl = "index" /\ pc = "download"
    /\ \/ /\ tempFile' = TRUE
          /\ pc' = "exif"
          /\ UNCHANGED <<status, log>>
       \/ \E partial \in BOOLEAN : Fail("downloadFailed", partial)
    /\ UNCHANGED <<config, aux, srcOrig, dstOrig, images, imageRecord, exifData,
                   detections, task, destBucket, createdImageNames, cleanupI,
                   processedSizes, now, sqlVars>>

\* src/index.js:80-92  EXIF extraction, then the select by sha256 is sent
Index_Exif ==
    /\ impl = "index" /\ pc = "exif"
    /\ \/ /\ exifData' = Some(RawExif)
          /\ pc' = "select"
          /\ UNCHANGED <<status, tempFile, log>>
       \/ /\ Fail("exifFailed", tempFile)
          /\ UNCHANGED exifData
    /\ UNCHANGED <<config, aux, srcOrig, dstOrig, images, imageRecord, detections,
                   task, destBucket, createdImageNames, cleanupI,
                   processedSizes, now, sqlVars>>

\* src/index.js:88-105  .single(): one row, or PGRST116 for none or several,
\* or another error
Index_Select ==
    /\ impl = "index" /\ pc = "select"
    /\ \/ /\ Cardinality(DOMAIN images) = 1
          /\ pc' = "classify"
          /\ UNCHANGED <<status, tempFile, log>>
       \/ /\ Cardinality(DOMAIN images) # 1
          /\ pc' = "deleteUnregistered"
          /\ Note({IF DOMAIN images = {} THEN "noRecord" ELSE "severalRecords"})
          /\ UNCHANGED <<status, tempFile>>
       \/ Fail("selectError", tempFile)
    /\ UNCHANGED <<config, aux, srcOrig, dstOrig, images, imageRecord, exifData,
                   detections, task, destBucket, createdImageNames, cleanupI,
                   processedSizes, now, sqlVars>>

\* src/index.js:100-105  the unregistered original is deleted, 400
Index_DeleteUnregistered ==
    /\ impl = "index" /\ pc = "deleteUnregistered"
    /\ \/ /\ srcOrig' = FALSE
          /\ Respond(400, tempFile)
          /\ Note({"deleteSrc"})
       \/ /\ Fail("deleteSrcFailed", tempFile)
          /\ UNCHANGED srcOrig
    /\ UNCHANGED <<config, aux, dstOrig, images, imageRecord, exifData, detections,
                   task, destBucket, createdImageNames, cleanupI,
                   processedSizes, now, sqlVars>>

\* src/index.js:118-136  SafeSearch, the verdict, the next call is sent
Index_Classify ==
    /\ impl = "index" /\ pc = "classify"
    /\ \/ \E d \in Annotations :
             /\ detections' = d
             /\ pc' = IF isUnsafe(d) THEN "deleteUnsafe" ELSE "update"
             /\ UNCHANGED <<status, tempFile, log>>
       \/ /\ Fail("classifyFailed", tempFile)
          /\ UNCHANGED detections
    /\ UNCHANGED <<config, aux, srcOrig, dstOrig, images, imageRecord, exifData,
                   task, destBucket, createdImageNames, cleanupI,
                   processedSizes, now, sqlVars>>

\* src/index.js:126-131  the unsafe original is deleted, 200
Index_DeleteUnsafe ==
    /\ impl = "index" /\ pc = "deleteUnsafe"
    /\ \/ /\ srcOrig' = FALSE
          /\ Respond(200, tempFile)
          /\ Note({"deleteSrc"})
       \/ /\ Fail("deleteSrcFailed", tempFile)
          /\ UNCHANGED srcOrig
    /\ UNCHANGED <<config, aux, dstOrig, images, imageRecord, exifData, detections,
                   task, destBucket, createdImageNames, cleanupI,
                   processedSizes, now, sqlVars>>

\* src/index.js:136-157  update of exif by sha256 (an error is only logged),
\* then every resizeAndSave is started
Index_Update ==
    /\ impl = "index" /\ pc = "update"
    /\ \/ /\ images' = [id \in DOMAIN images |->
                          [images[id] EXCEPT !.exif = exifData]]
          /\ Note({"update"})
       \/ /\ UNCHANGED images
          /\ Note({"update", "updateFailed"})
    /\ task' = StartTasks
    /\ pc' = "join"
    /\ UNCHANGED <<config, aux, status, srcOrig, dstOrig, tempFile, imageRecord,
                   exifData, detections, destBucket, createdImageNames,
                   cleanupI, processedSizes, now, sqlVars>>

\* src/index.js:236-246  the write stream of one resizeAndSave finishes or
\* fails
Index_TaskSettles ==
    /\ impl = "index" /\ pc = "join"
    /\ \E i \in Tasks :
          /\ task[i] = "running"
          /\ \/ /\ task' = [task EXCEPT ![i] = "ok"]
                /\ destBucket' =
                      destBucket \cup {newFileName_index(ObjectPath, RESIZE_WIDTHS[i])}
             \/ /\ task' = [task EXCEPT ![i] = "err"]
                /\ UNCHANGED destBucket
    /\ UNCHANGED <<config, aux, pc, status, srcOrig, dstOrig, tempFile, images,
                   imageRecord, exifData, detections, createdImageNames,
                   cleanupI, processedSizes, now, sqlVars, log>>

\* src/index.js:223-246  the read stream or the sharp transformer of one
\* resizeAndSave emits 'error'. The only 'error' listener is on the write
\* stream, the last of the pipe chain: the promise is never settled, and the
\* event, which no listener takes, ends the Node process.
Index_StreamError ==
    /\ impl = "index" /\ pc = "join"
    /\ \E i \in Tasks :
          /\ task[i] = "running"
          /\ task' = [task EXCEPT ![i] = "lost"]
    /\ pc' = "crashed"
    /\ UNCHANGED <<config, aux, status, srcOrig, dstOrig, tempFile, images,
                   imageRecord, exifData, detections, destBucket,
                   createdImageNames, cleanupI, processedSizes, now, sqlVars,
                   log>>

\* src/index.js:157-169, 177-190  every promise has settled: the successes are
\* collected; with a failure the cleanup loop is entered (or, with nothing to
\* clean, the error is rethrown)
Index_Join ==
    /\ impl = "index" /\ pc = "join"
    /\ \A i \in Tasks : task[i] # "running"
    /\ LET created == successfulResults(RESIZE_WIDTHS, task, 1) IN
       /\ createdImageNames' = created
       /\ IF \A i \in Tasks : task[i] # "err"
          THEN /\ pc' = "move"
               /\ UNCHANGED <<status, tempFile, cleanupI, log>>
          ELSE IF created = <<>>
          THEN /\ Fail("resizeFailed", tempFile)
               /\ UNCHANGED cleanupI
          ELSE /\ pc' = "cleanup"
               /\ cleanupI' = 1
               /\ Note({"resizeFailed"})
               /\ UNCHANGED <<status, tempFile>>
    /\ UNCHANGED <<config, aux, srcOrig, dstOrig, images, imageRecord, exifData,
                   detections, task, destBucket, processedSizes, now, sqlVars>>

deleteErrorCaught_No == FALSE

\* src/index.js:170-175  the try/catch around each delete of the cleanup loop
deleteErrorCaught == TRUE

\* src/index.js:169-178, 188-200  one delete of the cleanup loop (its error
\* is caught and logged); after the last one the error is rethrown
Index_CleanupDelete ==
    /\ impl = "index" /\ pc = "cleanup"
    /\ LET imageName == createdImageNames[cleanupI]
           last == cleanupI = Len(createdImageNames)
       IN
       \E deleted \in BOOLEAN :
          /\ deleted => imageName \in destBucket
          /\ destBucket' = IF deleted THEN destBucket \ {imageName} ELSE destBucket
          /\ IF last \/ (~deleted /\ ~deleteErrorCaught)
             THEN /\ Respond(errorStatus(IF deleted \/ deleteErrorCaught
                                         THEN "resizeFailed" ELSE "deleteFailed"),
                             tempFile)
                  /\ UNCHANGED cleanupI
             ELSE /\ cleanupI' = cleanupI + 1
                  /\ UNCHANGED <<pc, status, tempFile>>
          /\ Note(IF deleted THEN {"cleanup"} ELSE {"cleanup", "cleanupDeleteFailed"})
    /\ UNCHANGED <<config, aux, srcOrig, dstOrig, images, imageRecord, exifData,
                   detections, task, createdImageNames, processedSizes, now,
                   sqlVars>>

\* src/index.js:183-200  the original is moved to original-<name>, 200
Index_Move ==
    /\ impl = "index" /\ pc = "move"
    /\ \E outcome \in MoveOutcomes :
          /\ MoveOriginal(outcome)
          /\ IF outcome = "moved"
             THEN /\ Respond(200, tempFile)
                  /\ Note({"move"})
             ELSE /\ Respond(errorStatus("moveFailed"), tempFile)
                  /\ Note({"move", "moveFailed"})
    /\ UNCHANGED <<config, aux, images, imageRecord, exifData, detections, task,
                   destBucket, createdImageNames, cleanupI, processedSizes,
                   now, sqlVars>>

\* ----------------------------------------------------- stored procedure
\* key::int of a jsonb key.
KeyInt(key) ==
    CASE key = "200" -> 200
      [] key = "400" -> 400
      [] key = "0400" -> 400
      [] key = "1200" -> 1200
      [] OTHER -> 0

MaxOf(S) == CHOOSE m \in S : \A n \in S : n <= m

\* src/unnamed/part_000:1-17  the UPDATE of the row with id image_id_input
update_image_processing_results_part000(row, exif_data_input, processed_sizes_input, t) ==
    [row EXCEPT
       !.exif = Some(exif_data_input),
       !.processed_sizes = Some(processed_sizes_input),
       !.status = "ready",
       !.updated_at = t]

\* src/applied-sb-migrations/update_function.sql:13-16
new_processed_gcs_path(processed_sizes_input) ==
    LET keys == DOMAIN processed_sizes_input
        max_width_key ==
            IF keys = {} THEN None
            ELSE Some(ToString(MaxOf({KeyInt(k) : k \in keys})))
    IN  IF max_width_key # None /\ max_width_key[1] \in keys
        THEN Some(processed_sizes_input[max_width_key[1]])
        ELSE None

update_image_processing_results_Merge(row, exif_data_input, processed_sizes_input, width_input, height_input, t) ==
    [row EXCEPT
       !.processed_gcs_path =
           IF new_processed_gcs_path(processed_sizes_input) # None
           THEN new_processed_gcs_path(processed_sizes_input)
           ELSE row.processed_gcs_path,
       !.exif = Some(exif_data_input),
       !.processed_sizes =
           IF row.processed_sizes = None THEN Some(processed_sizes_input)
           ELSE Some([k \in DOMAIN row.processed_sizes[1]
                              \cup DOMAIN processed_sizes_input |->
                         IF k \in DOMAIN processed_sizes_input
                         THEN processed_sizes_input[k]
                         ELSE row.processed_sizes[1][k]]),
       !.width = Some(width_input),
       !.height = Some(height_input),
       !.status = "ready",
       !.updated_at = t]

\* src/applied-sb-migrations/update_function.sql:18-28  the UPDATE of the row
\* with id image_id_input
update_image_processing_results(row, exif_data_input, processed_sizes_input, width_input, height_input, t) ==
    [row EXCEPT
       !.processed_gcs_path =
           IF new_processed_gcs_path(processed_sizes_input) # None
           THEN new_processed_gcs_path(processed_sizes_input)
           ELSE row.processed_gcs_path,
       !.exif = Some(exif_data_input),
       !.processed_sizes = Some(processed_sizes_input),
       !.width = Some(width_input),
       !.height = Some(height_input),
       !.status = "ready",
       !.updated_at = t]

\* --------------------------------- processImage, src/unnamed/part_001
\* processedSizes[r.width] = r.fileName for every result
ProcessedSizesOf(widths) ==
    LET ws == {widths[i] : i \in 1..Len(widths)} IN
    [k \in {ToString(w) : w \in ws} |->
        newFileName_part001(ObjectPath, CHOOSE w \in ws : ToString(w) = k)]

onRpcError_Continue == "move"

\* src/unnamed/part_001:120  if (rpcError) throw rpcError
onRpcError == "throw"

\* src/unnamed/part_001:54-71
Part_Start ==
    /\ impl = "part001" /\ pc = "start"
    /\ IF ~body.bucket \/ ~body.name
       THEN /\ status' = 400
            /\ pc' = "done"
            /\ Note({"badRequest"})
       ELSE /\ pc' = "download"
            /\ UNCHANGED <<status, log>>
    /\ UNCHANGED <<config, aux, srcOrig, dstOrig, tempFile, images, imageRecord,
                   exifData, detections, task, destBucket, createdImageNames,
                   cleanupI, processedSizes, now, sqlVars>>

\* src/unnamed/part_001:71-78  download, then the lookup is sent
Part_Download ==
    /\ impl = "part001" /\ pc = "download"
    /\ \/ /\ tempFile' = TRUE
          /\ pc' = "find"
          /\ UNCHANGED <<status, log>>
       \/ \E partial \in BOOLEAN : Fail("downloadFailed", partial)
    /\ UNCHANGED <<config, aux, srcOrig, dstOrig, images, imageRecord, exifData,
                   detections, task, destBucket, createdImageNames, cleanupI,
                   processedSizes, now, sqlVars>>

\* src/unnamed/part_001:74-87  .single(): one row, or an error (none, several,
\* or the datastore failing), which all answer 404
Part_Find ==
    /\ impl = "part001" /\ pc = "find"
    /\ \/ \E id \in DOMAIN images :
             /\ DOMAIN images = {id}
             /\ imageRecord' = id
             /\ pc' = "exif"
             /\ UNCHANGED <<status, tempFile, log>>
       \/ /\ Cardinality(DOMAIN images) # 1
          /\ Respond(404, tempFile)
          /\ Note({IF DOMAIN images = {} THEN "noRecord" ELSE "severalRecords"})
          /\ UNCHANGED imageRecord
       \/ /\ Respond(404, tempFile)
          /\ Note({"selectError"})
          /\ UNCHANGED imageRecord
    /\ UNCHANGED <<config, aux, srcOrig, dstOrig, images, exifData, detections,
                   task, destBucket, createdImageNames, cleanupI,
                   processedSizes, now, sqlVars>>

\* src/unnamed/part_001:87-93  EXIF extraction and sanitation
Part_Exif ==
    /\ impl = "part001" /\ pc = "exif"
    /\ \/ /\ exifData' = Some(sanitizedExifData(RawExif))
          /\ pc' = "classify"
          /\ UNCHANGED <<status, tempFile, log>>
       \/ /\ Fail("exifFailed", tempFile)
          /\ UNCHANGED exifData
    /\ UNCHANGED <<config, aux, srcOrig, dstOrig, images, imageRecord, detections,
                   task, destBucket, createdImageNames, cleanupI,
                   processedSizes, now, sqlVars>>

\* src/unnamed/part_001:93-114  SafeSearch and the verdict; a safe image has
\* every resizeAndSave started (with no width configured Promise.all resolves
\* at once and the commit is sent)
Part_Classify ==
    /\ impl = "part001" /\ pc = "classify"
    /\ \/ \E d \in Annotations :
             /\ detections' = d
             /\ IF isUnsafe(d)
                THEN /\ pc' = "deleteUnsafe"
                     /\ UNCHANGED <<task, processedSizes>>
                ELSE /\ task' = StartTasks
                     /\ IF \A i \in Tasks : StartTasks[i] = "idle"
                        THEN /\ pc' = "rpc"
                             /\ processedSizes' = Some(ProcessedSizesOf(<<>>))
                        ELSE /\ pc' = "join"
                             /\ UNCHANGED processedSizes
             /\ UNCHANGED <<status, tempFile, log>>
       \/ /\ Fail("classifyFailed", tempFile)
          /\ UNCHANGED <<detections, task, processedSizes>>
    /\ UNCHANGED <<config, aux, srcOrig, dstOrig, images, imageRecord, exifData,
                   destBucket, createdImageNames, cleanupI, now, sqlVars>>

\* src/unnamed/part_001:99-103
Part_DeleteUnsafe ==
    /\ impl = "part001" /\ pc = "deleteUnsafe"
    /\ \/ /\ srcOrig' = FALSE
          /\ Respond(200, tempFile)
          /\ Note({"deleteSrc"})
       \/ /\ Fail("deleteSrcFailed", tempFile)
          /\ UNCHANGED srcOrig
    /\ UNCHANGED <<config, aux, dstOrig, images, imageRecord, exifData, detections,
                   task, destBucket, createdImageNames, cleanupI,
                   processedSizes, now, sqlVars>>

\* src/unnamed/part_001:152-154 with 110-118 and 129-135: one write stream
\* finishes or fails. Promise.all resolves with the last success and rejects
\* with the first failure, and the handler goes on in the same turn; the
\* other streams keep running, also after the handler has returned.
Part_TaskSettles ==
    /\ impl = "part001" /\ pc \in {"join", "done"}
    /\ \E i \in Tasks :
          /\ task[i] = "running"
          /\ \/ /\ task' = [task EXCEPT ![i] = "ok"]
                /\ destBucket' =
                      destBucket \cup {newFileName_part001(ObjectPath, RESIZE_WIDTHS[i])}
                /\ IF pc = "join" /\ \A j \in Tasks \ {i} : task[j] \in {"ok", "idle"}
                   THEN /\ pc' = "rpc"
                        /\ processedSizes' =
                              Some(ProcessedSizesOf(
                                  resizeTargets(RESIZE_WIDTHS, sourceWidth)))
                   ELSE UNCHANGED <<pc, processedSizes>>
                /\ UNCHANGED <<status, tempFile, log>>
             \/ /\ task' = [task EXCEPT ![i] = "err"]
                /\ IF pc = "join"
                   THEN Fail("resizeFailed", tempFile)
                   ELSE UNCHANGED <<pc, status, tempFile, log>>
                /\ UNCHANGED <<destBucket, processedSizes>>
    /\ UNCHANGED <<config, aux, srcOrig, dstOrig, images, imageRecord, exifData,
                   detections, createdImageNames, cleanupI, now, sqlVars>>

\* src/unnamed/part_001:150-154  the sharp transformer of one resizeAndSave
\* emits 'error' (the working file cannot be read or decoded). The 'error'
\* listener is on the write stream only: the promise is never settled, and
\* the event, which no listener takes, ends the Node process.
Part_StreamError ==
    /\ impl = "part001" /\ pc \in {"join", "done"}
    /\ \E i \in Tasks :
          /\ task[i] = "running"
          /\ task' = [task EXCEPT ![i] = "lost"]
    /\ pc' = "crashed"
    /\ UNCHANGED <<config, aux, status, srcOrig, dstOrig, tempFile, images,
                   imageRecord, exifData, detections, destBucket,
                   createdImageNames, cleanupI, processedSizes, now, sqlVars,
                   log>>

\* src/unnamed/part_001:114-125  the commit through the stored procedure
Part_Rpc ==
    /\ impl = "part001" /\ pc = "rpc"
    /\ \/ /\ images' = [images EXCEPT ![imageRecord] =
                          update_image_processing_results_part000(images[imageRecord], exifData[1],
                                    processedSizes[1], now)]
          /\ now' = now + 1
          /\ pc' = "move"
          /\ Note({"rpc"})
          /\ UNCHANGED <<status, tempFile>>
       \/ /\ IF onRpcError = "throw"
             THEN Fail("rpcFailed", tempFile)
             ELSE /\ pc' = "move"
                  /\ Note({"rpcFailed"})
                  /\ UNCHANGED <<status, tempFile>>
          /\ UNCHANGED <<images, now>>
    /\ UNCHANGED <<config, aux, srcOrig, dstOrig, imageRecord, exifData, detections,
                   task, destBucket, createdImageNames, cleanupI,
                   processedSizes, sqlVars>>

\* src/unnamed/part_001:123-135  the original is moved to originals/<base>
Part_Move ==
    /\ impl = "part001" /\ pc = "move"
    /\ \E outcome \in MoveOutcomes :
          /\ MoveOriginal(outcome)
          /\ IF outcome = "moved"
             THEN /\ Respond(200, tempFile)
                  /\ Note({"move"})
             ELSE /\ Respond(errorStatus("moveFailed"), tempFile)
                  /\ Note({"move", "moveFailed"})
    /\ UNCHANGED <<config, aux, images, imageRecord, exifData, detections, task,
                   destBucket, createdImageNames, cleanupI, processedSizes,
                   now, sqlVars>>

Next ==
    \/ Index_Start
    \/ Index_Download
    \/ Index_Exif
    \/ Index_Select
    \/ Index_DeleteUnregistered
    \/ Index_Classify
    \/ Index_DeleteUnsafe
    \/ Index_Update
    \/ Index_TaskSettles
    \/ Index_StreamError
    \/ Index_Join
    \/ Index_CleanupDelete
    \/ Index_Move
    \/ Part_Start
    \/ Part_Download
    \/ Part_Find
    \/ Part_Exif
    \/ Part_Classify
    \/ Part_DeleteUnsafe
    \/ Part_TaskSettles
    \/ Part_StreamError
    \/ Part_Rpc
    \/ Part_Move

Spec == Init /\ [][Next]_vars

\* ------------------------------------- the stored procedure on its own
\* Rows a call can find: a new one, and one an earlier commit has filled.
CommittedRow ==
    [status |-> "ready", exif |-> Some({"Model"}),
     processed_sizes |-> Some([k \in {"600"} |-> "photos/w600/dog.webp"]),
     width |-> Some(800), height |-> Some(600),
     processed_gcs_path |-> Some("photos/w600/dog.webp"),
     updated_at |-> 0]

SqlExifs == {{}, {"Make"}}

SqlSizes ==
    { [k \in {} |-> ""],
      [k \in {"200"} |-> "photos/w200/cat.webp"],
      [k \in {"200", "400"} |-> "photos/w" \o k \o "/cat.webp"],
      [k \in {"0400"} |-> "photos/w0400/cat.webp"] }

SqlWidths == {400, 1000}
SqlHeights == {300}

InitSql ==
    /\ impl = "sql"
    /\ body = [bucket |-> TRUE, name |-> TRUE]
    /\ RESIZE_WIDTHS = <<>>
    /\ sourceWidth = 400
    /\ \E ids \in SUBSET Ids : images \in [ids -> {FreshRow, CommittedRow}]
    /\ InitCommon

\* One call of a procedure: the table after it, and what the run remembers
\* of the call before.
SqlCall(call, table) ==
    /\ now <= MaxClock
    /\ images' = table
    /\ now' = now + 1
    /\ lastCall' = Some(call)
    /\ afterLast' = IF lastCall = Some(call) THEN Some(images) ELSE None
    /\ UNCHANGED <<config, aux, pc, status, srcOrig, dstOrig, tempFile, imageRecord,
                   exifData, detections, task, destBucket, createdImageNames,
                   cleanupI, processedSizes, log>>

\* src/unnamed/part_000:1-17  update_image_processing_results(id, exif, sizes)
Sql_Call_v1 ==
    \E id \in Ids, exif \in SqlExifs, sizes \in SqlSizes :
        SqlCall([fn |-> "v1", id |-> id, exif |-> exif, sizes |-> sizes,
                 width |-> 0, height |-> 0],
                [i \in DOMAIN images |->
                    IF i = id THEN update_image_processing_results_part000(images[i], exif, sizes, now)
                    ELSE images[i]])

\* src/applied-sb-migrations/update_function.sql:1-30
\* update_image_processing_results(id, exif, sizes, width, height)
Sql_Call_v2 ==
    \E id \in Ids, exif \in SqlExifs, sizes \in SqlSizes,
       w \in SqlWidths, h \in SqlHeights :
        SqlCall([fn |-> "v2", id |-> id, exif |-> exif, sizes |-> sizes,
                 width |-> w, height |-> h],
                [i \in DOMAIN images |->
                    IF i = id THEN update_image_processing_results(images[i], exif, sizes, w, h, now)
                    ELSE images[i]])

NextSql ==
    \/ Sql_Call_v1
    \/ Sql_Call_v2

SpecSql == InitSql /\ [][NextSql]_vars

\* ---------------------------------------------------------- properties
nameOf(i) ==
    IF impl = "index" THEN newFileName_index(ObjectPath, RESIZE_WIDTHS[i])
    ELSE newFileName_part001(ObjectPath, RESIZE_WIDTHS[i])

AllNames == {nameOf(i) : i \in Tasks}

Started == {RESIZE_WIDTHS[i] : i \in {j \in Tasks : task[j] # "idle"}}

Untouched == \A id \in DOMAIN images : images[id] = FreshRow

ReportsUnsafe ==
    \E c \in {detections.adult, detections.violence, detections.racy} :
        c \in {"LIKELY", "VERY_LIKELY"}

\* C1: when a resizeAndSave of the invocation failed while others succeeded
\* and no compensating delete failed, then at the moment the invocation
\* answers 500 no object uploaded by a successful subtask is in the
\* destination bucket.
C1_PartialFailureCleanup ==
    [][(/\ pc # "done" /\ pc' = "done" /\ status' = 500
        /\ "resizeFailed" \in log'
        /\ "cleanupDeleteFailed" \notin log')
       => \A i \in Tasks : task'[i] = "ok" => nameOf(i) \notin destBucket']_vars

\* C2 as stated: with an unsafe verdict the invocation always ends with the
\* source deleted and the answer 200, having started no resizeAndSave, written
\* nothing to the catalog and not moved the original.
C2_Original ==
    (ReportsUnsafe /\ pc = "done")
    => /\ status = 200 /\ ~srcOrig
       /\ Started = {} /\ destBucket = {}
       /\ log \cap {"update", "rpc", "rpcFailed", "move"} = {}
       /\ Untouched /\ ~dstOrig

\* C2 as amended: with an unsafe verdict no resizeAndSave is ever started, the
\* catalog is not written and the original is not moved; the delete of the
\* source is attempted, and the invocation ends with 200 and the source
\* deleted when that delete succeeds, and with 500 when it fails.
C2_UnsafeShortCircuit ==
    ReportsUnsafe
    => /\ Started = {} /\ destBucket = {}
       /\ log \cap {"update", "rpc", "rpcFailed", "move"} = {}
       /\ Untouched /\ ~dstOrig
       /\ pc \in {"deleteUnsafe", "done"}
       /\ pc = "done" =>
            \/ status = 200 /\ ~srcOrig /\ "deleteSrc" \in log
            \/ status = 500 /\ "deleteSrcFailed" \in log

C2_Witness ==
    /\ ReportsUnsafe /\ detections.adult = "VERY_LIKELY"
    /\ pc = "done" /\ status = 200 /\ ~srcOrig
    /\ Len(RESIZE_WIDTHS) > 0

\* C3: when the lookup finds no record, the answer is 404 and the source
\* object is neither deleted nor moved, no rendition exists and the catalog
\* is not written.
C3_NotFoundUntouched ==
    ("noRecord" \in log /\ pc = "done")
    => /\ status = 404
       /\ srcOrig /\ ~dstOrig
       /\ "deleteSrc" \notin log /\ "deleteSrcFailed" \notin log
       /\ Started = {} /\ destBucket = {}
       /\ log \cap {"update", "rpc", "rpcFailed", "move"} = {}

\* C4: the move of the original is only issued after every resizeAndSave of
\* the invocation has succeeded and the catalog write has succeeded.
C4_MoveAfterCommit ==
    "move" \in log
    => /\ \A i \in Tasks : task[i] = "ok"
       /\ log \cap {"update", "rpc"} # {}
       /\ log \cap {"updateFailed", "rpcFailed", "resizeFailed"} = {}

\* C5: the widths a resizeAndSave is started for are configured widths that
\* are strictly smaller than the width of the source.
C5_WidthSelection ==
    \A w \in Started :
        /\ \E i \in Tasks : RESIZE_WIDTHS[i] = w
        /\ w < sourceWidth

C7_ResponseMapping ==
    pc = "done"
    => /\ ("move" \in log /\ "moveFailed" \notin log) => status = 200
       /\ (ReportsUnsafe /\ "deleteSrc" \in log) => status = 200
       /\ "noRecord" \in log => status = 404
       /\ "badRequest" \in log => status = 400
       /\ log \cap {"downloadFailed", "exifFailed", "classifyFailed",
                    "selectError", "updateFailed", "resizeFailed",
                    "rpcFailed"} # {} => status = 500

SameButTimestamp(r1, r2) ==
    [r1 EXCEPT !.updated_at = 0] = [r2 EXCEPT !.updated_at = 0]

\* C8: a call of update_image_processing_results that repeats the call before
\* it (same id, same payload) leaves every row as the first call left it, the
\* timestamp aside; the row with that id is ready and its processed_sizes is
\* the payload's map.
C8_CommitIdempotent ==
    afterLast # None
    => LET call == lastCall[1]
           first == afterLast[1]
       IN  /\ DOMAIN images = DOMAIN first
           /\ \A id \in DOMAIN images : SameButTimestamp(images[id], first[id])
           /\ call.id \in DOMAIN images =>
                /\ images[call.id].status = "ready"
                /\ images[call.id].processed_sizes = Some(call.sizes)
                /\ images[call.id].exif = Some(call.exif)
                /\ images[call.id].updated_at > first[call.id].updated_at

C8_Witness ==
    /\ afterLast # None
    /\ lastCall[1].fn = "v2"
    /\ lastCall[1].id \in DOMAIN images
    /\ DOMAIN lastCall[1].sizes = {"200", "400"}
    /\ images[lastCall[1].id].processed_gcs_path = Some("photos/w400/cat.webp")
    /\ images[lastCall[1].id].width = Some(1000)

\* C9: when the commit issued after the renditions were uploaded returns an
\* error, the invocation ends with 500, the original is not moved, and the
\* renditions uploaded by the invocation stay in the destination bucket.
C9_CommitFailure ==
    "rpcFailed" \in log
    => /\ pc = "done" /\ status = 500
       /\ "move" \notin log /\ srcOrig /\ ~dstOrig
       /\ \A i \in Tasks : task[i] = "ok"
       /\ destBucket = AllNames
       /\ "cleanup" \notin log
       /\ Untouched

C9_Witness ==
    /\ "rpcFailed" \in log /\ pc = "done" /\ status = 500
    /\ Cardinality(destBucket) >= 2

\* C10: when the move of the original fails after the renditions were
\* uploaded and the catalog was written, the invocation still answers 200,
\* and the renditions and the catalog record stay as they were.
C10_RelocationFailure ==
    (/\ "moveFailed" \in log /\ pc = "done"
     /\ AllNames # {}
     /\ log \cap {"update", "rpc"} # {} /\ "updateFailed" \notin log)
    => /\ status = 200
       /\ destBucket = AllNames
       /\ \A id \in DOMAIN images : images[id].exif = exifData

\* The rendition n is in the rendition map of a record that is ready.
Referenced(n) ==
    \E id \in DOMAIN images :
        /\ images[id].status = "ready"
        /\ images[id].processed_sizes # None
        /\ \E k \in DOMAIN images[id].processed_sizes[1] :
              images[id].processed_sizes[1][k] = n

\* C11: once the invocation has finished, every rendition in the destination
\* bucket is referenced by the rendition map of a record that is ready (the
\* other renditions the invocation uploaded have been deleted). The runs in
\* which the commit failed or a cleanup delete failed are left out: there the
\* renditions stay by design.
C11_NoOrphanedRenditions ==
    (pc = "done" /\ log \cap {"rpcFailed", "cleanupDeleteFailed"} = {})
    => \A n \in destBucket : Referenced(n)

C14_SeveralRecordsTolerated ==
    ("severalRecords" \in log /\ pc = "done")
    => /\ status \notin {400, 404}
       /\ exifData # None /\ detections # NoAnnotation
       /\ ~ReportsUnsafe => "deleteSrc" \notin log

\* C16: the cleanup, the response and the removal of the working file wait
\* for every resizeAndSave of the invocation: none is still running once the
\* cleanup has begun or the response has been sent.
C16_JoinBeforeLeaving ==
    (pc \in {"cleanup", "done"} \/ status # 0)
    => \A i \in Tasks : task[i] # "running"

\* C18: the resizeAndSave subtasks of one invocation write pairwise distinct
\* destination paths.
C18_DisjointPaths ==
    \A i, j \in Tasks :
        (i # j /\ task[i] # "idle" /\ task[j] # "idle") => nameOf(i) # nameOf(j)

\* C15: every invocation reaches a terminal outcome and sends its response,
\* and every resizeAndSave promise is settled in the end: no promise is left
\* unsettled for good, and the invocation never stops before it has answered.
C15_Termination ==
    /\ \A i \in Tasks : task[i] # "lost"
    /\ (pc = "done" /\ status # 0) \/ ENABLED Next

\* C20: once the cleanup loop has met a delete that failed and the invocation
\* has finished, the loop has gone through every name of createdImageNames,
\* no rendition whose delete could succeed is left, and the answer is the 500
\* of the rendition failure.
C20_CleanupGoesOn ==
    ("cleanupDeleteFailed" \in log /\ pc = "done")
    => /\ cleanupI = Len(createdImageNames)
       /\ status = 500
       /\ "resizeFailed" \in log /\ "deleteFailed" \notin log
       /\ "move" \notin log

C20_Witness ==
    /\ "cleanupDeleteFailed" \in log /\ pc = "done" /\ status = 500
    /\ Len(createdImageNames) = 2
    /\ createdImageNames[1] # createdImageNames[2]
    /\ createdImageNames[1] \in destBucket
    /\ createdImageNames[2] \notin destBucket

\* ------------------------------------------- the verdict on its own
\* result.safeSearchAnnotation as the Vision API returns it: a likelihood for
\* each of its five categories.
SafeSearchAnnotation ==
    [adult : Likelihood, spoof : Likelihood, medical : Likelihood,
     violence : Likelihood, racy : Likelihood]

InitVerdict ==
    /\ impl \in {"index", "part001"}
    /\ body = [bucket |-> TRUE, name |-> TRUE]
    /\ RESIZE_WIDTHS = <<>>
    /\ sourceWidth = 400
    /\ images = <<>>
    /\ detections \in SafeSearchAnnotation
    /\ invocations = <<>>
    /\ tmpdir = {}
    /\ InitIdle

\* src/index.js:122-124, src/unnamed/part_001:95-97  const isUnsafe = ...
Verdict_isUnsafe ==
    /\ verdict = None
    /\ verdict' = Some(isUnsafe(detections))
    /\ UNCHANGED <<config, pc, status, srcOrig, dstOrig, tempFile, images,
                   imageRecord, exifData, detections, task, destBucket,
                   createdImageNames, cleanupI, processedSizes, now, sqlVars,
                   log, run, invocations, tmpdir>>

NextVerdict == Verdict_isUnsafe

SpecVerdict == InitVerdict /\ [][NextVerdict]_vars

\* The place of a likelihood on the scale of the Vision API.
Rank(likelihood) ==
    CASE likelihood = "UNKNOWN" -> 0
      [] likelihood = "VERY_UNLIKELY" -> 1
      [] likelihood = "UNLIKELY" -> 2
      [] likelihood = "POSSIBLE" -> 3
      [] likelihood = "LIKELY" -> 4
      [] likelihood = "VERY_LIKELY" -> 5

\* C19: the verdict is unsafe exactly when adult, violence or racy is LIKELY
\* or VERY_LIKELY, for every combination of the six likelihood values; the
\* verdict is the same whatever medical and spoof are.
C19_UnsafeVerdict ==
    verdict # None
    => /\ verdict[1] = (\E c \in {"adult", "violence", "racy"} :
                            Rank(detections[c]) >= Rank("LIKELY"))
       /\ \A m, sp \in Likelihood :
             isUnsafe([detections EXCEPT !.medical = m, !.spoof = sp]) = verdict[1]

C19_Witness ==
    /\ verdict = Some(FALSE)
    /\ detections = [adult |-> "POSSIBLE", spoof |-> "VERY_LIKELY",
                     medical |-> "LIKELY", violence |-> "UNKNOWN",
                     racy |-> "UNLIKELY"]

\* --------------------------------------------- the trigger delivered twice
\* What the claims call a transient error of the download, of a rendition
\* upload or of the catalog.
TransientFaults == {"downloadFailed", "resizeFailed", "rpcFailed", "selectError"}

\* src/index.js:40-62, src/unnamed/part_001:54-66  the same request body is
\* posted again after an invocation that answered 500: processImage starts
\* over with fresh locals; the buckets and the table are as the first
\* invocation left them.
Retry ==
    /\ run = 1 /\ pc = "done" /\ status = 500
    /\ log \cap TransientFaults # {}
    /\ \A i \in Tasks : task[i] # "running"
    /\ run' = 2
    /\ pc' = "start"
    /\ status' = 0
    /\ imageRecord' = 0
    /\ exifData' = None
    /\ detections' = NoAnnotation
    /\ task' = [i \in Tasks |-> "idle"]
    /\ createdImageNames' = <<>>
    /\ cleanupI' = 0
    /\ processedSizes' = <<>>
    /\ log' = {}
    /\ UNCHANGED <<config, srcOrig, dstOrig, tempFile, images, destBucket, now,
                   sqlVars, verdict, invocations, tmpdir>>

NextRetry == Next \/ Retry

SpecRetry == Init /\ [][NextRetry]_vars

\* Every event of the log that is a fault, or an outcome other than success.
Faults ==
    TransientFaults \cup
    {"badRequest", "exifFailed", "noRecord", "severalRecords", "deleteSrc",
     "deleteSrcFailed", "classifyFailed", "updateFailed", "cleanupDeleteFailed",
     "moveFailed"}

\* C13: the second run of a retried invocation, when it meets no fault, ends
\* as a single fault-free run does: 200, every rendition path holds its
\* object and is in the rendition map of a ready record, and the original is
\* in the destination bucket only.
C13_RetrySafe ==
    (run = 2 /\ pc = "done" /\ log \cap Faults = {})
    => /\ status = 200
       /\ destBucket = AllNames
       /\ \A n \in AllNames : Referenced(n)
       /\ \E id \in DOMAIN images : images[id].status = "ready"
       /\ ~srcOrig /\ dstOrig

\* ------------------------------------------ two invocations at a time
\* Two requests served by one Node process. Nothing fails from outside: the
\* only thing followed is the local working file of each.
Invocations == 1..2

\* Two uploads of the same base name in different folders.
ConcObjects ==
    { ObjectPath, [dir |-> "albums", name |-> "cat", ext |-> ".jpg"] }

\* src/index.js:50, 58  path.join(os.tmpdir(), fileName), fileName the name
tempFilePath_index(p) ==
    "/tmp/" \o (IF p.dir # "" THEN p.dir \o "/" ELSE "") \o p.name \o p.ext

\* src/unnamed/part_001:64  path.join(os.tmpdir(), path.basename(gcsFilePath))
tempFilePath_part001(p) == "/tmp/" \o p.name \o p.ext

tempFilePath(i) ==
    IF impl = "index" THEN tempFilePath_index(invocations[i].name)
    ELSE tempFilePath_part001(invocations[i].name)

FilesAt(path) == {f \in tmpdir : f.path = path}

InitConc ==
    /\ impl \in {"index", "part001"}
    /\ body = [bucket |-> TRUE, name |-> TRUE]
    /\ RESIZE_WIDTHS = <<200>>
    /\ sourceWidth = 400
    /\ images = <<>>
    /\ detections = NoAnnotation
    /\ invocations \in [Invocations ->
                          [name : ConcObjects, pc : {"download"},
                           status : {0}, read : {{}}]]
    /\ tmpdir = {}
    /\ InitIdle

ConcUnchanged ==
    UNCHANGED <<config, pc, status, srcOrig, dstOrig, tempFile, images,
                imageRecord, exifData, detections, task, destBucket,
                createdImageNames, cleanupI, processedSizes, now, sqlVars,
                log, verdict, run>>

\* src/index.js:66-67, src/unnamed/part_001:70-71  the object is written to
\* tempFilePath, over whatever file is there.
Conc_Download(i) ==
    /\ invocations[i].pc = "download"
    /\ tmpdir' = (tmpdir \ FilesAt(tempFilePath(i)))
                    \cup {[path |-> tempFilePath(i),
                           bytes |-> invocations[i].name, by |-> i]}
    /\ invocations' = [invocations EXCEPT ![i].pc = "exif"]
    /\ ConcUnchanged

\* A step that hands tempFilePath to a reader that rejects when the file is
\* not there: the catch answers 500 and the finally block follows.
ReadWorkingFile(i, next, code) ==
    /\ invocations' =
          IF FilesAt(tempFilePath(i)) = {}
          THEN [invocations EXCEPT ![i].pc = "finally", ![i].status = 500]
          ELSE [invocations EXCEPT
                   ![i].pc = next, ![i].status = code,
                   ![i].read = @ \cup {f.bytes : f \in FilesAt(tempFilePath(i))}]
    /\ UNCHANGED tmpdir
    /\ ConcUnchanged

\* src/index.js:80, src/unnamed/part_001:87  exiftool.read(tempFilePath)
Conc_Exif(i) ==
    /\ invocations[i].pc = "exif"
    /\ ReadWorkingFile(i, "classify", 0)

\* src/index.js:118, src/unnamed/part_001:93
\* visionClient.safeSearchDetection(tempFilePath). src/index.js reads the
\* renditions from the bucket (line 223) and needs the file no more.
Conc_Classify(i) ==
    /\ invocations[i].pc = "classify"
    /\ IF impl = "index" THEN ReadWorkingFile(i, "finally", 200)
       ELSE ReadWorkingFile(i, "resize", 0)

\* src/unnamed/part_001:107, 150  sharp(sourceTempPath): when the file is not
\* there the transformer emits an 'error' no listener takes, and the process
\* ends with every invocation it was serving.
Conc_Resize(i) ==
    /\ impl = "part001" /\ invocations[i].pc = "resize"
    /\ IF FilesAt(tempFilePath(i)) = {}
       THEN /\ invocations' =
                 [j \in Invocations |->
                     IF invocations[j].pc = "done" THEN invocations[j]
                     ELSE [invocations[j] EXCEPT !.pc = "crashed"]]
            /\ UNCHANGED tmpdir
            /\ ConcUnchanged
       ELSE ReadWorkingFile(i, "finally", 200)

\* src/index.js:191-200, src/unnamed/part_001:132-135
\* if (fs.existsSync(tempFilePath)) fs.unlinkSync(tempFilePath)
Conc_Finally(i) ==
    /\ invocations[i].pc = "finally"
    /\ tmpdir' = tmpdir \ FilesAt(tempFilePath(i))
    /\ invocations' = [invocations EXCEPT ![i].pc = "done"]
    /\ ConcUnchanged

NextConc ==
    \E i \in Invocations :
        \/ Conc_Download(i)
        \/ Conc_Exif(i)
        \/ Conc_Classify(i)
        \/ Conc_Resize(i)
        \/ Conc_Finally(i)

SpecConc == InitConc /\ [][NextConc]_vars

\* C17: of two invocations running at once, each has its working file to
\* itself: while an invocation is between its download and its finally
\* block the file at its path is there and is the one it wrote, it reads no
\* bytes but those of its own object, and it ends as it does alone, with 200.
C17_Isolation ==
    \A i \in Invocations :
        /\ invocations[i].pc \in {"exif", "classify", "resize"}
           => \E f \in FilesAt(tempFilePath(i)) : f.by = i
        /\ invocations[i].read \subseteq {invocations[i].name}
        /\ invocations[i].pc # "crashed"
        /\ invocations[i].pc = "done" => invocations[i].status = 200

====
